---- MODULE Spec2Model ----
(***************************************************************************)
(* Spend Tracker (src/app.py): a Streamlit script that reads transaction   *)
(* rows from the first worksheet of a Google Sheet, shows totals and       *)
(* per-category / per-month breakdowns, and appends one row per submitted  *)
(* form.                                                                   *)
(*                                                                         *)
(* One script run (a "render cycle") is: sidebar name check, open the      *)
(* sheet, load_data, the three tabs, and, when the run was started by the  *)
(* form's submit button, the append.  The three network calls (open,       *)
(* get_all_records, append_row) are the points where other clients of the  *)
(* sheet can interleave.                                                   *)
(*                                                                         *)
(* Representation.  A Python str is a sequence of one-character strings; a *)
(* date is <<year, month, day>>; NaT is <<>>.  A cell is a number or a     *)
(* text.  Numbers are exact decimals counted in hundredths: binary         *)
(* floating-point rounding of the sums is outside the model.  The          *)
(* worksheet has a header row, the six column names of line 62 in the      *)
(* order line 153 writes them; the service account's credentials resolve.  *)
(***************************************************************************)
EXTENDS Integers, Sequences, FiniteSets, TLC

\* Largest number of data rows the worksheet holds in a checked behaviour.
MaxRows == 3

----------------------------------------------------------------------------
\* Text and dates

Digits == <<"0", "1", "2", "3", "4", "5", "6", "7", "8", "9">>

DigitChar(n) == Digits[n + 1]

IsDigit(c) == \E i \in 1..10 : Digits[i] = c

DigitVal(c) == (CHOOSE i \in 1..10 : Digits[i] = c) - 1

NaT == <<>>

IsLeap(y) == (y % 4 = 0 /\ y % 100 # 0) \/ y % 400 = 0

DaysInMonth(y, m) ==
    IF m = 2 THEN (IF IsLeap(y) THEN 29 ELSE 28)
    ELSE IF m \in {4, 6, 9, 11} THEN 30 ELSE 31

\* str(date_in): datetime.date prints as zero-padded YYYY-MM-DD.
str_date(d) ==
    << DigitChar(d[1] \div 1000), DigitChar((d[1] \div 100) % 10),
       DigitChar((d[1] \div 10) % 10), DigitChar(d[1] % 10), "-",
       DigitChar(d[2] \div 10), DigitChar(d[2] % 10), "-",
       DigitChar(d[3] \div 10), DigitChar(d[3] % 10) >>

\* Variant: the text read day first, as YYYY-DD-MM.
parse_date_dayfirst(s) ==
    IF /\ Len(s) = 10
       /\ s[5] = "-" /\ s[8] = "-"
       /\ \A i \in {1, 2, 3, 4, 6, 7, 9, 10} : IsDigit(s[i])
    THEN LET y == 1000 * DigitVal(s[1]) + 100 * DigitVal(s[2])
                  + 10 * DigitVal(s[3]) + DigitVal(s[4])
             d == 10 * DigitVal(s[6]) + DigitVal(s[7])
             m == 10 * DigitVal(s[9]) + DigitVal(s[10])
         IN  IF m \in 1..12 /\ d >= 1 /\ d <= DaysInMonth(y, m)
             THEN <<y, m, d>> ELSE NaT
    ELSE NaT

\* pd.to_datetime(text, errors='coerce'): a YYYY-MM-DD text that names a day
\* of the calendar becomes that day, any other text of the pools (empty,
\* "abc") becomes NaT.
parse_date(s) ==
    IF /\ Len(s) = 10
       /\ s[5] = "-" /\ s[8] = "-"
       /\ \A i \in {1, 2, 3, 4, 6, 7, 9, 10} : IsDigit(s[i])
    THEN LET y == 1000 * DigitVal(s[1]) + 100 * DigitVal(s[2])
                  + 10 * DigitVal(s[3]) + DigitVal(s[4])
             m == 10 * DigitVal(s[6]) + DigitVal(s[7])
             d == 10 * DigitVal(s[9]) + DigitVal(s[10])
         IN  IF m \in 1..12 /\ d >= 1 /\ d <= DaysInMonth(y, m)
             THEN <<y, m, d>> ELSE NaT
    ELSE NaT

\* Variant: .dt.month in place of .dt.to_period('M'), the year dropped.
month_only(d) ==
    IF d = NaT THEN <<"N", "a", "T">>
    ELSE << DigitChar(d[2] \div 10), DigitChar(d[2] % 10) >>

\* .dt.to_period('M').astype(str) on one value: "YYYY-MM", and "NaT" for NaT.
month_str(d) ==
    IF d = NaT THEN <<"N", "a", "T">>
    ELSE << DigitChar(d[1] \div 1000), DigitChar((d[1] \div 100) % 10),
            DigitChar((d[1] \div 10) % 10), DigitChar(d[1] % 10), "-",
            DigitChar(d[2] \div 10), DigitChar(d[2] % 10) >>

\* Code point of the characters that occur in a Month key.
Ord(c) ==
    IF IsDigit(c) THEN 48 + DigitVal(c)
    ELSE IF c = "-" THEN 45
    ELSE IF c = "N" THEN 78
    ELSE IF c = "T" THEN 84
    ELSE 97

\* Python's order on str: by code point at the first difference, a proper
\* prefix first.
RECURSIVE StrLess(_, _)
StrLess(a, b) ==
    IF b = <<>> THEN FALSE
    ELSE IF a = <<>> THEN TRUE
    ELSE IF Ord(Head(a)) # Ord(Head(b)) THEN Ord(Head(a)) < Ord(Head(b))
    ELSE StrLess(Tail(a), Tail(b))

----------------------------------------------------------------------------
\* Cells: a number (in hundredths) or a text.

Num(v) == [num |-> TRUE, v |-> v, s |-> <<>>]

Text(s) == [num |-> FALSE, v |-> 0, s |-> s]

\* int(text) succeeds: the texts of the pools that read as numbers are
\* strings of digits.
IsNumeric(s) == s # <<>> /\ \A i \in 1..Len(s) : IsDigit(s[i])

RECURSIVE IntOf(_)
IntOf(s) == IF s = <<>> THEN 0 ELSE 10 * IntOf(SubSeq(s, 1, Len(s) - 1)) + DigitVal(s[Len(s)])

\* gspread's numericise, which get_all_records applies to every cell by
\* default: a cell whose text reads as a number comes back as that number.
numericise(c) ==
    IF ~c.num /\ IsNumeric(c.s) THEN Num(100 * IntOf(c.s)) ELSE c

\* pd.to_numeric(cell, errors='coerce').fillna(0) on one cell.
to_numeric_fillna(c) == IF c.num THEN c.v ELSE 0

\* The str values of the program and of the pools.
s_Expense == <<"E", "x", "p", "e", "n", "s", "e">>
s_Income == <<"I", "n", "c", "o", "m", "e">>
s_Investment == <<"I", "n", "v", "e", "s", "t", "m", "e", "n", "t">>
s_expense == <<"e", "x", "p", "e", "n", "s", "e">>
s_Food == <<"F", "o", "o", "d">>
s_Rent == <<"R", "e", "n", "t">>
s_Salary == <<"S", "a", "l", "a", "r", "y">>
s_Other == <<"O", "t", "h", "e", "r">>
s_Transport == <<"T", "r", "a", "n", "s", "p", "o", "r", "t">>
s_Coffee == <<"C", "o", "f", "f", "e", "e">>
s_Pay == <<"P", "a", "y">>
s_007 == <<"0", "0", "7">>
s_Gift == <<"G", "i", "f", "t">>
s_Taxi == <<"T", "a", "x", "i">>
s_Tip == <<"T", "i", "p">>
s_sip == <<"s", "i", "p">>
s_abc == <<"a", "b", "c">>

----------------------------------------------------------------------------
\* The worksheet

\* pd.to_datetime(cell, errors='coerce') on one cell.  A number is read as
\* nanoseconds since 1970-01-01, and every number of the pools is within
\* that first day.
to_datetime(c) == IF c.num THEN <<1970, 1, 1>> ELSE parse_date(c.s)

\* The header row of the worksheet: the column names load_data expects.
Header == <<"Date", "Item", "Category", "Amount", "Type", "Notes">>

Columns == {Header[i] : i \in 1..Len(Header)}

ColumnIndex(c) == CHOOSE i \in 1..Len(Header) : Header[i] = c

\* date.today() of the checked behaviours, the date_input's default.
Today == <<2024, 1, 5>>

\* The entry form's widgets before the user touches them.
EmptyForm ==
    [date_in |-> Today, item_in |-> <<>>, amount_in |-> 0,
     type_in |-> s_Expense, category_in |-> s_Food, notes_in |-> <<>>]

\* A form only this program's user fills in (no other client writes its row).
Coffee ==
    [date_in |-> Today, item_in |-> s_Coffee, amount_in |-> 450,
     type_in |-> s_Expense, category_in |-> s_Food, notes_in |-> <<>>]

\* What a user fills in: amounts that tie across categories, two years,
\* a leap day, each option of Type, an item name made of digits.
FormInputs ==
    { Coffee,
      [date_in |-> <<2023, 12, 31>>, item_in |-> s_Rent, amount_in |-> 450,
       type_in |-> s_Expense, category_in |-> s_Rent, notes_in |-> <<>>],
      [date_in |-> Today, item_in |-> s_Pay, amount_in |-> 1000,
       type_in |-> s_Income, category_in |-> s_Salary, notes_in |-> <<>>],
      [date_in |-> <<2024, 2, 29>>, item_in |-> s_007, amount_in |-> 100,
       type_in |-> s_Investment, category_in |-> s_Other, notes_in |-> s_sip] }

\* new_row = [str(date_in), item_in, category_in, amount_in, type_in, notes_in]
new_row(f) ==
    << Text(str_date(f.date_in)), Text(f.item_in), Text(f.category_in),
       Num(f.amount_in), Text(f.type_in), Text(f.notes_in) >>

\* Rows that other clients of the sheet write: rows like the form's, and
\* rows with a malformed Date or Amount, an empty Date, a Type in another
\* spelling.
ExternalRows ==
    {new_row(f) : f \in FormInputs \ {Coffee}} \cup
    { << Text(s_abc), Text(s_Gift), Text(s_Food), Text(s_abc),
         Text(s_Expense), Text(<<>>) >>,
      << Text(<<>>), Text(s_Taxi), Text(s_Transport), Num(100),
         Text(s_Expense), Text(<<>>) >>,
      << Text(str_date(Today)), Text(s_Tip), Text(s_Food), Num(70),
         Text(s_expense), Text(<<>>) >> }

\* Variant: sheet.insert_row(row, 2), the row goes right below the header.
insert_row_at_top(rows, row) == <<row>> \o rows

\* sheet.append_row(row): the row goes below the last row.
append_row(rows, row) == Append(rows, row)

\* sheet.get_all_records(): one mapping per data row, keyed by the header,
\* every value numericised.
get_all_records(rows) ==
    [i \in 1..Len(rows) |->
        [c \in Columns |-> numericise(rows[i][ColumnIndex(c)])]]

----------------------------------------------------------------------------
\* load_data

\* The two column clean-ups of load_data, on one record.
clean(rec) ==
    [c \in DOMAIN rec |->
        IF c = "Amount" THEN to_numeric_fillna(rec[c])
        ELSE IF c = "Date" THEN to_datetime(rec[c])
        ELSE rec[c]]

\* Variant: no branch for an empty read, pd.DataFrame([]) has no columns.
load_data_no_schema(data) ==
    [columns |-> IF data = <<>> THEN <<>> ELSE Header,
     rows |-> [i \in 1..Len(data) |-> clean(data[i])]]

\* load_data on the records get_all_records returned.
load_data(data) ==
    IF data = <<>>
    THEN [columns |-> <<"Date", "Item", "Category", "Amount", "Type", "Notes">>,
          rows |-> <<>>]
    ELSE [columns |-> Header,
          rows |-> [i \in 1..Len(data) |-> clean(data[i])]]

\* df before load_data has run in a script run.
NoDf == [columns |-> <<>>, rows |-> <<>>]

\* df.empty
empty(t) == Len(t.rows) = 0

----------------------------------------------------------------------------
\* Aggregation

\* rows[rows['Type'] == ty]
RECURSIVE of_type(_, _)
of_type(rows, ty) ==
    IF rows = <<>> THEN <<>>
    ELSE IF Head(rows)["Type"] = ty
         THEN <<Head(rows)>> \o of_type(Tail(rows), ty)
         ELSE of_type(Tail(rows), ty)

\* rows['Amount'].sum()
RECURSIVE amount_sum(_)
amount_sum(rows) ==
    IF rows = <<>> THEN 0 ELSE Head(rows)["Amount"] + amount_sum(Tail(rows))

\* Variant: Investment rows counted as spending.
total_spend_with_investment(t) ==
    amount_sum(of_type(t.rows, Text(s_Expense)))
    + amount_sum(of_type(t.rows, Text(s_Investment)))

total_spend_of(t) == amount_sum(of_type(t.rows, Text(s_Expense)))

total_income_of(t) == amount_sum(of_type(t.rows, Text(s_Income)))

balance_of(income, spend) == income - spend

\* expenses = df[df['Type'] == 'Expense'].copy()
expenses_of(t) == of_type(t.rows, Text(s_Expense))

\* rows of one group
RECURSIVE with_key(_, _, _)
with_key(rows, col, k) ==
    IF rows = <<>> THEN <<>>
    ELSE IF Head(rows)[col] = k
         THEN <<Head(rows)>> \o with_key(Tail(rows), col, k)
         ELSE with_key(Tail(rows), col, k)

\* expenses.groupby('Category')['Amount'].sum().reset_index(), as the set of
\* its rows.
category_sums(ex) ==
    { [Category |-> c, Amount |-> amount_sum(with_key(ex, "Category", c))] :
        c \in {ex[i]["Category"] : i \in 1..Len(ex)} }

\* Variant: sort_values(by='Amount') without ascending=False.
sort_values_asc(S) ==
    { s \in [1..Cardinality(S) -> S] :
        /\ \A i, j \in 1..Cardinality(S) : i # j => s[i] # s[j]
        /\ \A i, j \in 1..Cardinality(S) : i < j => s[i].Amount <= s[j].Amount }

\* .sort_values(by='Amount', ascending=False): the rows by falling Amount.
\* The order of rows with equal Amount is the sort's own; every order is
\* an outcome.
sort_values_desc(S) ==
    { s \in [1..Cardinality(S) -> S] :
        /\ \A i, j \in 1..Cardinality(S) : i # j => s[i] # s[j]
        /\ \A i, j \in 1..Cardinality(S) : i < j => s[i].Amount >= s[j].Amount }

cat_breakdowns(ex) == sort_values_desc(category_sums(ex))

\* expenses['Month'] = expenses['Date'].dt.to_period('M').astype(str)
with_month(ex) ==
    [i \in 1..Len(ex) |->
        [c \in DOMAIN ex[i] \cup {"Month"} |->
            IF c = "Month" THEN month_str(ex[i]["Date"]) ELSE ex[i][c]]]

\* expenses.groupby('Month')['Amount'].sum().reset_index(): one row per
\* Month key, the keys in rising str order.
monthly_data_of(ex) ==
    LET exm  == with_month(ex)
        keys == {exm[i]["Month"] : i \in 1..Len(exm)}
        ord  == CHOOSE s \in [1..Cardinality(keys) -> keys] :
                    \A i, j \in 1..Cardinality(keys) :
                        i < j => StrLess(s[i], s[j])
    IN  [i \in 1..Cardinality(keys) |->
            [Month |-> ord[i],
             Amount |-> amount_sum(with_key(exm, "Month", ord[i]))]]

----------------------------------------------------------------------------
\* The script run

VARIABLES
    sheet,          \* data rows of the remote worksheet, below the header
    sheet_url,      \* the sidebar's text input
    pc,             \* where the current script run stands
    started_by,     \* what started the current run: "page", "form", "st.rerun"
    submitted,      \* st.form_submit_button's value in this run
    form,           \* the form's widget values in this run
    df,             \* load_data's table
    total_spend, total_income, balance,
    cat_breakdown, monthly_data,
    tab1, tab2,     \* what the tab shows: "none", "info" or "views"
    tab3,           \* the entry form is on the page
    messages,       \* warning / error / success boxes on the page
    calls           \* store calls issued by the current run

vars ==
    << sheet, sheet_url, pc, started_by, submitted, form, df, total_spend, total_income,
       balance, cat_breakdown, monthly_data, tab1, tab2, tab3, messages, calls >>

\* What the sidebar's input can hold; the first is its default.
SheetNames == {"Spend Tracker Database", "Missing", ""}

\* Spreadsheets shared with the service account.
SharedSheets == {"Spend Tracker Database"}

\* Exceptions a store call raises.
StoreErrors == {"APIError", "ConnectionError"}

NoCalls == [open |-> 0, get_all_records |-> 0, append_row |-> 0]

\* A script run starts from the top: nothing of the previous run is kept but
\* the widget values.  clear_on_submit resets the form's widgets after the
\* run its submit button started.
RunStarts(by, name, f) ==
    /\ started_by' = by
    /\ sheet_url' = name
    /\ submitted' = (by = "form")
    /\ form' = f
    /\ pc' = "sidebar"
    /\ df' = NoDf
    /\ total_spend' = 0 /\ total_income' = 0 /\ balance' = 0
    /\ cat_breakdown' = <<>> /\ monthly_data' = <<>>
    /\ tab1' = "none" /\ tab2' = "none" /\ tab3' = FALSE
    /\ messages' = {}
    /\ calls' = NoCalls

Init ==
    /\ sheet = <<>>
    /\ sheet_url = "Spend Tracker Database"
    /\ started_by = "page"
    /\ submitted = FALSE
    /\ form = EmptyForm
    /\ pc = "sidebar"
    /\ df = NoDf
    /\ total_spend = 0 /\ total_income = 0 /\ balance = 0
    /\ cat_breakdown = <<>> /\ monthly_data = <<>>
    /\ tab1 = "none" /\ tab2 = "none" /\ tab3 = FALSE
    /\ messages = {}
    /\ calls = NoCalls

\* Variant: the warning without st.stop().
CheckSheetName_no_stop ==
    /\ pc = "sidebar"
    /\ messages' = IF sheet_url = ""
                   THEN messages \cup {<<"warning", "no sheet name">>}
                   ELSE messages
    /\ pc' = "open"
    /\ UNCHANGED << sheet, sheet_url, started_by, submitted, form, df,
                    total_spend, total_income, balance, cat_breakdown,
                    monthly_data, tab1, tab2, tab3, calls >>

\* Lines 45-49: without a sheet name the run warns and stops.
CheckSheetName ==
    /\ pc = "sidebar"
    /\ IF sheet_url = ""
       THEN /\ messages' = messages \cup {<<"warning", "no sheet name">>}
            /\ pc' = "stopped"
       ELSE /\ messages' = messages
            /\ pc' = "open"
    /\ UNCHANGED << sheet, sheet_url, started_by, submitted, form, df, total_spend,
                    total_income, balance, cat_breakdown, monthly_data,
                    tab1, tab2, tab3, calls >>

\* Lines 51-53: client.open(sheet_url).sheet1 succeeds.
OpenSheet ==
    /\ pc = "open"
    /\ sheet_url \in SharedSheets
    /\ calls' = [calls EXCEPT !.open = @ + 1]
    /\ pc' = "load"
    /\ UNCHANGED << sheet, sheet_url, started_by, submitted, form, df, total_spend,
                    total_income, balance, cat_breakdown, monthly_data,
                    tab1, tab2, tab3, messages >>

\* Lines 54-56: client.open raises (no such sheet, not shared, network):
\* the error is shown and the run stops.
OpenSheetFails ==
    /\ pc = "open"
    /\ calls' = [calls EXCEPT !.open = @ + 1]
    /\ \E e \in StoreErrors :
          messages' = messages \cup {<<"error", "connect", e>>}
    /\ pc' = "stopped"
    /\ UNCHANGED << sheet, sheet_url, started_by, submitted, form, df, total_spend,
                    total_income, balance, cat_breakdown, monthly_data,
                    tab1, tab2, tab3 >>

\* Lines 73-149: load_data, then the dashboard, the analysis and the form.
\* The run goes on to the append when the submit button started it.  The
\* Recent Activity table and the two charts draw from df, expenses and
\* monthly_data and assign nothing.
LoadAndRender ==
    /\ pc = "load"
    /\ calls' = [calls EXCEPT !.get_all_records = @ + 1]
    /\ LET t == load_data(get_all_records(sheet)) IN
       /\ df' = t
       /\ IF empty(t)
          THEN /\ tab1' = "info" /\ tab2' = "info"
               /\ UNCHANGED << total_spend, total_income, balance,
                               cat_breakdown, monthly_data >>
          ELSE /\ tab1' = "views" /\ tab2' = "views"
               /\ total_spend' = total_spend_of(t)
               /\ total_income' = total_income_of(t)
               /\ balance' = balance_of(total_income_of(t), total_spend_of(t))
               /\ monthly_data' = monthly_data_of(expenses_of(t))
               /\ cat_breakdown' \in cat_breakdowns(expenses_of(t))
    /\ tab3' = TRUE
    /\ pc' = IF submitted THEN "submit" ELSE "done"
    /\ UNCHANGED << sheet, sheet_url, started_by, submitted, form, messages >>

\* Line 60 raises: nothing catches it, the run ends on the exception.
LoadFails ==
    /\ pc = "load"
    /\ calls' = [calls EXCEPT !.get_all_records = @ + 1]
    /\ \E e \in StoreErrors :
          messages' = messages \cup {<<"exception", "load_data", e>>}
    /\ pc' = "crashed"
    /\ UNCHANGED << sheet, sheet_url, started_by, submitted, form, df, total_spend,
                    total_income, balance, cat_breakdown, monthly_data,
                    tab1, tab2, tab3 >>

\* Variant: the append succeeds, st.success, and no st.rerun(): the run ends
\* with the table it loaded before the append.
SaveTransaction_no_rerun ==
    /\ pc = "submit"
    /\ Len(sheet) < MaxRows
    /\ sheet' = Append(sheet, new_row(form))
    /\ calls' = [calls EXCEPT !.append_row = @ + 1]
    /\ messages' = messages \cup {<<"success", "saved">>}
    /\ submitted' = FALSE
    /\ form' = EmptyForm
    /\ pc' = "done"
    /\ UNCHANGED << sheet_url, started_by, df, total_spend, total_income,
                    balance, cat_breakdown, monthly_data, tab1, tab2, tab3 >>

\* Lines 151-158: the append succeeds; st.success, then st.rerun() starts the
\* script again from the top with the form cleared.
SaveTransaction ==
    /\ pc = "submit"
    /\ Len(sheet) < MaxRows
    /\ sheet' = append_row(sheet, new_row(form))
    /\ RunStarts("st.rerun", sheet_url, EmptyForm)

\* Variant: st.rerun() in a finally, the failed run starts over as well.
SaveTransactionFails_rerun ==
    /\ pc = "submit"
    /\ RunStarts("st.rerun", sheet_url, EmptyForm)
    /\ UNCHANGED sheet

\* Lines 159-161: append_row raises; the error is shown and the run ends.
\* clear_on_submit has emptied the form.
SaveTransactionFails ==
    /\ pc = "submit"
    /\ calls' = [calls EXCEPT !.append_row = @ + 1]
    /\ \E e \in StoreErrors :
          messages' = messages \cup {<<"error", "save", e>>}
    /\ submitted' = FALSE
    /\ form' = EmptyForm
    /\ pc' = "done"
    /\ UNCHANGED << sheet, sheet_url, started_by, df, total_spend, total_income, balance,
                    cat_breakdown, monthly_data, tab1, tab2, tab3 >>

\* The user reloads the page or edits the sheet name: a new run.
PageLoad ==
    /\ pc \in {"done", "stopped", "crashed"}
    /\ \E name \in SheetNames : RunStarts("page", name, EmptyForm)
    /\ UNCHANGED sheet

\* The user fills the form in and presses Save Transaction: a new run with
\* submitted set.
SubmitForm ==
    /\ pc = "done"
    /\ tab3
    /\ \E f \in FormInputs : RunStarts("form", sheet_url, f)
    /\ UNCHANGED sheet

\* Another client of the sheet appends a row.  (Edits and deletions by
\* other clients are not among the steps.)
ExternalAppend ==
    /\ Len(sheet) < MaxRows
    /\ \E row \in ExternalRows : sheet' = Append(sheet, row)
    /\ UNCHANGED << sheet_url, pc, started_by, submitted, form, df, total_spend,
                    total_income, balance, cat_breakdown, monthly_data,
                    tab1, tab2, tab3, messages, calls >>

\* The steps of this program, as against those of the sheet's other clients.
SystemStep ==
    \/ CheckSheetName
    \/ OpenSheet
    \/ OpenSheetFails
    \/ LoadAndRender
    \/ LoadFails
    \/ SaveTransaction
    \/ SaveTransactionFails
    \/ PageLoad
    \/ SubmitForm

Next == SystemStep \/ ExternalAppend

Spec == Init /\ [][Next]_vars

----------------------------------------------------------------------------
\* Properties

\* Sum of Amount over the rows at the positions in S.
IndexSum(rows, S) ==
    LET f[i \in 0..Len(rows)] ==
            IF i = 0 THEN 0
            ELSE f[i - 1] + (IF i \in S THEN rows[i]["Amount"] ELSE 0)
    IN  f[Len(rows)]

\* Positions of the rows of a Type.
TypeRows(rows, ty) == {i \in 1..Len(rows) : rows[i]["Type"] = ty}

\* Sum of the Amount fields of a sequence of group rows.
GroupTotal(g) ==
    LET f[i \in 0..Len(g)] == IF i = 0 THEN 0 ELSE f[i - 1] + g[i].Amount
    IN  f[Len(g)]

\* The rows without the one at position i.
Without(rows, i) == SubSeq(rows, 1, i - 1) \o SubSeq(rows, i + 1, Len(rows))

\* C2: when the dashboard shows its metrics, Total Expense is the sum of
\* Amount over the rows whose Type is exactly "Expense", Total Income the
\* sum over the rows whose Type is exactly "Income", Balance is income minus
\* expense, and taking away a row of any other Type changes none of them.
C2_TotalsByType ==
    tab1 = "views" =>
        /\ total_spend = IndexSum(df.rows, TypeRows(df.rows, Text(s_Expense)))
        /\ total_income = IndexSum(df.rows, TypeRows(df.rows, Text(s_Income)))
        /\ balance = total_income - total_spend
        /\ total_spend - total_income = -balance
        /\ \A i \in 1..Len(df.rows) :
              df.rows[i]["Type"] \notin {Text(s_Expense), Text(s_Income)} =>
                  LET rest == Without(df.rows, i) IN
                  /\ IndexSum(rest, TypeRows(rest, Text(s_Expense))) = total_spend
                  /\ IndexSum(rest, TypeRows(rest, Text(s_Income))) = total_income

\* C2's case: metrics over a table with expense, income, and a row of
\* another Type that carries an amount.
C2_Witness ==
    /\ tab1 = "views"
    /\ total_spend > 0 /\ total_income > 0
    /\ \E i \in 1..Len(df.rows) :
          /\ df.rows[i]["Type"] \notin {Text(s_Expense), Text(s_Income)}
          /\ df.rows[i]["Amount"] > 0

\* C3: for a non-empty table the category breakdown has exactly one row per
\* Category that occurs among the Expense rows, each with the sum of that
\* category's Expense amounts, the rows by falling amount, and the amounts
\* add up to Total Expense.
C3_CategoryBreakdown ==
    tab2 = "views" =>
        LET ex   == TypeRows(df.rows, Text(s_Expense))
            cats == {df.rows[i]["Category"] : i \in ex}
            cb   == cat_breakdown
        IN  /\ {cb[k].Category : k \in 1..Len(cb)} = cats
            /\ Len(cb) = Cardinality(cats)
            /\ \A k \in 1..Len(cb) :
                  cb[k].Amount =
                      IndexSum(df.rows,
                               {i \in ex : df.rows[i]["Category"] = cb[k].Category})
            /\ \A k, l \in 1..Len(cb) : k < l => cb[k].Amount >= cb[l].Amount
            /\ GroupTotal(cb) = total_spend

\* C3's case: two categories with different sums, and a category that only
\* a non-Expense row carries.
C3_Witness ==
    /\ tab2 = "views"
    /\ Len(cat_breakdown) >= 2
    /\ cat_breakdown[1].Amount > cat_breakdown[2].Amount
    /\ \E i \in 1..Len(df.rows) :
          /\ df.rows[i]["Type"] # Text(s_Expense)
          /\ \A k \in 1..Len(cat_breakdown) :
                cat_breakdown[k].Category # df.rows[i]["Category"]

\* The key "NaT" of monthly_data, and the year and month a real key names.
NaTKey == <<"N", "a", "T">>

KeyMonths(k) ==
    12 * (1000 * DigitVal(k[1]) + 100 * DigitVal(k[2]) + 10 * DigitVal(k[3])
          + DigitVal(k[4]))
    + 10 * DigitVal(k[6]) + DigitVal(k[7])

DateMonths(d) == 12 * d[1] + d[2]

\* C4: for a non-empty table the monthly trend has one row per Year-Month of
\* the dated Expense rows, each with the sum of exactly that month's Expense
\* amounts, the months in rising chronological order; these month rows add
\* up to Total Expense minus the amounts of the Expense rows without a
\* Date; the Expense rows without a Date are in one bucket of their own
\* (key "NaT", after the months), never in a month's row.
C4_MonthlyTrend ==
    tab2 = "views" =>
        LET md    == monthly_data
            ex    == TypeRows(df.rows, Text(s_Expense))
            dated == {i \in ex : df.rows[i]["Date"] # NaT}
            real  == {k \in 1..Len(md) : md[k].Month # NaTKey}
            nat   == {k \in 1..Len(md) : md[k].Month = NaTKey}
        IN  /\ \A k \in real : Len(md[k].Month) = 7 /\ md[k].Month[5] = "-"
            /\ {KeyMonths(md[k].Month) : k \in real}
                  = {DateMonths(df.rows[i]["Date"]) : i \in dated}
            /\ \A k \in real :
                  md[k].Amount =
                      IndexSum(df.rows,
                               {i \in dated : DateMonths(df.rows[i]["Date"])
                                                = KeyMonths(md[k].Month)})
            /\ \A k, l \in real :
                  k < l => KeyMonths(md[k].Month) < KeyMonths(md[l].Month)
            /\ IndexSum(md, real) = total_spend - IndexSum(df.rows, ex \ dated)
            /\ Cardinality(nat) = (IF ex \ dated = {} THEN 0 ELSE 1)
            /\ \A k \in nat :
                  /\ md[k].Amount = IndexSum(df.rows, ex \ dated)
                  /\ \A l \in real : l < k

\* C4's case: months of two years and an Expense row without a Date that
\* carries an amount.
C4_Witness ==
    /\ tab2 = "views"
    /\ \E k, l, n \in 1..Len(monthly_data) :
          /\ k < l /\ l < n
          /\ monthly_data[k].Month[4] # monthly_data[l].Month[4]
          /\ monthly_data[n].Month = NaTKey
          /\ monthly_data[n].Amount > 0

\* The calendar days of the years the pools use, and how each prints.
ValidDates ==
    {d \in (2023..2024) \X (1..12) \X (1..31) : d[3] <= DaysInMonth(d[1], d[2])}

IsoText == [d \in ValidDates |-> str_date(d)]

ValidTexts == {IsoText[d] : d \in ValidDates}

\* Table t is the records taken one for one and in order, with each Amount
\* that is no number become 0, each Date that is no calendar date become
\* NaT, a well-formed Date the day its text names, and every other field as
\* it is.
Coerced(t, data) ==
    /\ Len(t.rows) = Len(data)
    /\ \A i \in 1..Len(data) :
          LET r == t.rows[i] IN
          /\ DOMAIN r = DOMAIN data[i]
          /\ \A c \in DOMAIN r \ {"Amount", "Date"} : r[c] = data[i][c]
          /\ r["Amount"] = (IF data[i]["Amount"].num THEN data[i]["Amount"].v ELSE 0)
          /\ IF ~data[i]["Date"].num /\ data[i]["Date"].s \in ValidTexts
             THEN /\ r["Date"] \in ValidDates
                  /\ IsoText[r["Date"]] = data[i]["Date"].s
             ELSE r["Date"] = NaT

C6_EmptyStore ==
    [][ (pc = "load" /\ sheet = <<>> /\ pc' \notin {"load", "crashed"}) =>
           /\ df'.columns = <<"Date", "Item", "Category", "Amount", "Type", "Notes">>
           /\ df'.rows = <<>>
           /\ pc' \in {"done", "submit"}
           /\ tab1' = "info" /\ tab2' = "info" /\ tab3'
           /\ total_spend' = 0 /\ total_income' = 0 /\ balance' = 0
           /\ cat_breakdown' = <<>> /\ monthly_data' = <<>>
           /\ messages' = {} ]_vars

\* C6's case: a run that ended over an empty worksheet.
C6_Witness ==
    /\ pc = "done" /\ sheet = <<>>
    /\ calls.get_all_records = 1
    /\ df.rows = <<>> /\ Len(df.columns) = 6
    /\ tab1 = "info"

\* C7: a run with an empty sheet name never reaches the open, and a run
\* whose open failed, like one with an empty name, is stopped with its
\* message on the page: it has read no rows, shows no tab and no form, holds
\* no table, and can neither load nor append.
C7_HaltOnNoSheet ==
    /\ sheet_url = "" => pc \in {"sidebar", "stopped"}
    /\ (\E e \in StoreErrors : <<"error", "connect", e>> \in messages)
          => pc = "stopped"
    /\ pc = "stopped" =>
          /\ \/ sheet_url = "" /\ messages = {<<"warning", "no sheet name">>}
                /\ calls.open = 0
             \/ sheet_url # "" /\ calls.open = 1
                /\ \E e \in StoreErrors : messages = {<<"error", "connect", e>>}
          /\ calls.get_all_records = 0 /\ calls.append_row = 0
          /\ df = NoDf
          /\ tab1 = "none" /\ tab2 = "none" /\ ~tab3
          /\ ~ENABLED LoadAndRender
          /\ ~ENABLED SaveTransaction
          /\ ~ENABLED SaveTransactionFails
          /\ ~ENABLED SubmitForm

\* C7's case: a run the submit button started, stopped by a failed open.
C7_Witness ==
    /\ pc = "stopped" /\ calls.open = 1
    /\ submitted /\ form = Coffee

\* A step that ends the append of a run: the run leaves "submit".
AppendReturns == pc = "submit" /\ pc' # "submit"

\* C8: an append that fails leaves the worksheet as it was, puts the store's
\* error on the page, has called append_row once, ends the run without a
\* rerun or a reload (table and views stay those of this run), and keeps
\* neither the row nor the submit for a later run; no run calls append_row
\* more than once, and after the failure no append is pending.
C8_FailedSave ==
    [][ /\ (AppendReturns /\ sheet' = sheet) =>
              /\ \E e \in StoreErrors :
                    messages' = messages \cup {<<"error", "save", e>>}
              /\ calls'.append_row = 1
              /\ pc' = "done"
              /\ started_by' = started_by
              /\ calls'.open = calls.open
              /\ calls'.get_all_records = calls.get_all_records
              /\ df' = df
              /\ total_spend' = total_spend /\ total_income' = total_income
              /\ balance' = balance /\ cat_breakdown' = cat_breakdown
              /\ monthly_data' = monthly_data
              /\ ~submitted' /\ form' = EmptyForm
        /\ (AppendReturns /\ sheet' # sheet) => pc' # "done"
        /\ calls'.append_row <= 1
        /\ (\E e \in StoreErrors : <<"error", "save", e>> \in messages') =>
              /\ pc' = "done"
              /\ ~submitted'
      ]_vars

\* C8's case: a run ended by a failed append, its error on the page.
C8_Witness ==
    /\ pc = "done"
    /\ calls.append_row = 1
    /\ \E e \in StoreErrors : <<"error", "save", e>> \in messages
    /\ tab1 = "views"

\* C9: a successful append starts the script again from the top in the same
\* step, with no table, aggregate or view of the submitting run kept; the
\* run so started opens the sheet and reads all rows again before it shows
\* anything, its table has every row the worksheet holds at that read (the
\* appended one among them), its aggregates are those of that table, and it
\* appends nothing itself.
C9_RerunAfterSave ==
    [][ /\ (AppendReturns /\ sheet' # sheet) =>
              /\ started_by' = "st.rerun" /\ pc' = "sidebar"
              /\ ~submitted'
              /\ df' = NoDf
              /\ tab1' = "none" /\ tab2' = "none" /\ ~tab3'
              /\ total_spend' = 0 /\ total_income' = 0 /\ balance' = 0
              /\ cat_breakdown' = <<>> /\ monthly_data' = <<>>
              /\ calls' = NoCalls
        /\ (started_by = "st.rerun" /\ tab1' # "none") =>
              /\ calls'.open = 1 /\ calls'.get_all_records = 1
        /\ (started_by = "st.rerun" /\ pc = "load" /\ pc' # "load"
                /\ pc' # "crashed") =>
              /\ pc' = "done"
              /\ Len(sheet) >= 1
              /\ Len(df'.rows) = Len(sheet)
              /\ tab1' = "views" /\ tab2' = "views"
              /\ total_spend' = IndexSum(df'.rows, TypeRows(df'.rows, Text(s_Expense)))
              /\ total_income' = IndexSum(df'.rows, TypeRows(df'.rows, Text(s_Income)))
              /\ balance' = total_income' - total_spend'
              /\ GroupTotal(cat_breakdown') = total_spend'
              /\ GroupTotal(monthly_data') = total_spend'
      ]_vars

\* C9's case: the run that st.rerun started has shown its views, the row
\* the form appended in its table.
C9_Witness ==
    /\ started_by = "st.rerun" /\ pc = "done"
    /\ tab1 = "views"
    /\ \E i \in 1..Len(df.rows) : df.rows[i]["Item"] = Text(s_Coffee)

IsPrefix(a, b) == Len(a) <= Len(b) /\ SubSeq(b, 1, Len(a)) = a

\* C10: every step, this program's or another client's, leaves the
\* worksheet's rows as a prefix of what it holds afterwards and adds at most
\* one row, of six values; a step of this program that changes the
\* worksheet is the append of a run that the submit button started, adds
\* that run's new_row at the end, and ends the submission, so a submission
\* appends at most one row.
C10_AppendOnly ==
    [][ /\ IsPrefix(sheet, sheet')
        /\ Len(sheet') <= Len(sheet) + 1
        /\ sheet' # sheet => Len(sheet'[Len(sheet')]) = 6
        /\ (SystemStep /\ sheet' # sheet) =>
              /\ pc = "submit" /\ submitted /\ started_by = "form"
              /\ Len(sheet') = Len(sheet) + 1
              /\ sheet'[Len(sheet')][1].s = str_date(form.date_in)
              /\ sheet'[Len(sheet')][2].s = form.item_in
              /\ sheet'[Len(sheet')][3].s = form.category_in
              /\ sheet'[Len(sheet')][4] = Num(form.amount_in)
              /\ sheet'[Len(sheet')][5].s = form.type_in
              /\ sheet'[Len(sheet')][6].s = form.notes_in
              /\ ~submitted' /\ pc' = "sidebar"
      ]_vars

\* C10's case: the form's row has been appended below rows that others
\* wrote, and another client has appended after it.
C10_Witness ==
    /\ Len(sheet) >= 3
    /\ sheet[2] = new_row(Coffee)

\* C1: at a successful append, loading the worksheet as the append leaves it
\* gives the table loaded from the worksheet as it was plus one last row,
\* whose Date, Item, Category, Amount, Type and Notes are the form's values;
\* Total Expense over it is the one before plus the form's amount when the
\* form's Type is "Expense" and the same otherwise; and the run st.rerun
\* starts loads exactly so.
C1_RoundTrip ==
    [][ /\ (AppendReturns /\ sheet' # sheet) =>
              LET before == load_data(get_all_records(sheet))
                  after  == load_data(get_all_records(sheet'))
                  last   == after.rows[Len(after.rows)]
              IN  /\ Len(after.rows) = Len(before.rows) + 1
                  /\ DOMAIN last = Columns
                  /\ last["Date"] = form.date_in
                  /\ last["Item"] = Text(form.item_in)
                  /\ last["Category"] = Text(form.category_in)
                  /\ last["Amount"] = form.amount_in
                  /\ last["Type"] = Text(form.type_in)
                  /\ last["Notes"] = Text(form.notes_in)
                  /\ SubSeq(after.rows, 1, Len(before.rows)) = before.rows
                  /\ total_spend_of(after) =
                        total_spend_of(before)
                        + (IF form.type_in = s_Expense THEN form.amount_in ELSE 0)
        /\ (started_by = "st.rerun" /\ pc = "load" /\ pc' = "done") =>
              df' = load_data(get_all_records(sheet))
      ]_vars

\* C1's case: the run after a save shows the form's Expense row as the
\* table's last, below an earlier Expense row, with both in Total Expense.
C1_Witness ==
    /\ started_by = "st.rerun" /\ pc = "done"
    /\ Len(df.rows) = Len(sheet) /\ Len(df.rows) >= 2
    /\ LET last == df.rows[Len(df.rows)] IN
          /\ last["Item"] = Text(s_Coffee) /\ last["Date"] = Today
          /\ last["Amount"] = 450 /\ last["Type"] = Text(s_Expense)
    /\ total_spend > 450

\* C1, for forms whose Item and Notes do not read as numbers: the round
\* trip of C1 holds at every successful append.
C1_RoundTripOfPlainText ==
    [][ (AppendReturns /\ sheet' # sheet
            /\ ~IsNumeric(form.item_in) /\ ~IsNumeric(form.notes_in)) =>
              LET before == load_data(get_all_records(sheet))
                  after  == load_data(get_all_records(sheet'))
                  last   == after.rows[Len(after.rows)]
              IN  /\ Len(after.rows) = Len(before.rows) + 1
                  /\ last["Date"] = form.date_in
                  /\ last["Item"] = Text(form.item_in)
                  /\ last["Category"] = Text(form.category_in)
                  /\ last["Amount"] = form.amount_in
                  /\ last["Type"] = Text(form.type_in)
                  /\ last["Notes"] = Text(form.notes_in)
                  /\ SubSeq(after.rows, 1, Len(before.rows)) = before.rows
                  /\ total_spend_of(after) =
                        total_spend_of(before)
                        + (IF form.type_in = s_Expense THEN form.amount_in ELSE 0)
      ]_vars

====
